---- MODULE Spec2Model ----
(***************************************************************************)
(* onelogin.saml.Response: one Response object built from a decoded        *)
(* samlp:Response document, and the three operations a caller can run on   *)
(* it: reading name_id, get_assertion_attribute_value and is_valid.        *)
(*                                                                         *)
(* The document is the part of the XML tree the three XPath queries can    *)
(* see: the NameID nodes, the Attribute nodes with their AttributeValue    *)
(* children, and the Conditions nodes with their NotBefore / NotOnOrAfter  *)
(* attributes and Audience descendants, all in document order.             *)
(***************************************************************************)
EXTENDS Integers, Sequences, FiniteSets

VARIABLES document, signature, issuer, constructed, last, failed

vars == <<document, signature, issuer, constructed, last, failed>>

(***************************************************************************)
(* Bounds of the model.                                                    *)
(***************************************************************************)
\* Most Conditions elements in one document.
MaxConds == 2
\* Most NameID nodes in a document, and most AttributeValue nodes under
\* one Attribute.
MaxNodes == 2

(***************************************************************************)
(* Values.                                                                 *)
(***************************************************************************)
\* Python's None: what lxml gives as .text of an element without content,
\* and what attrib.get(name, None) gives for an absent attribute, and the
\* default of the issuer argument.
None == [none |-> TRUE, s |-> <<>>]

\* A Python str, as its sequence of characters.
Str(chars) == [none |-> FALSE, s |-> chars]

\* All sequences over S of length lo..hi.
SeqsOf(S, lo, hi) == UNION {[1..n -> S] : n \in lo..hi}

\* .text of a NameID or AttributeValue node: None when the element has no
\* content, else a non-empty str.
Texts ==
    {None, Str(<<" ">>), Str(<<"x">>), Str(<<" ", "x", " ">>), Str(<<"x", " ", "x">>)}

\* A datetime: <<seconds, microsecond>>, ordered as datetime orders them.
Before(a, b) == a[1] < b[1] \/ (a[1] = b[1] /\ a[2] < b[2])

\* timedelta(0, 5, 0) of line 123
GraceSeconds == 5

\* now - timedelta(0, secs, 0)
MinusSeconds(t, secs) == <<t[1] - secs, t[2]>>

\* A timestamp string, by the shape of its text: "S" is
\* YYYY-MM-DDTHH:MM:SSZ, "f" is YYYY-MM-DDTHH:MM:SS.ffffffZ, "date" is the
\* date-only YYYY-MM-DD.  sec and micro are the digits it carries.
Stamp(fmt, sec, micro) == [none |-> FALSE, fmt |-> fmt, sec |-> sec, micro |-> micro]

NoStamp == [none |-> TRUE, fmt |-> "", sec |-> 0, micro |-> 0]

\* datetime.strftime(t, '%Y-%m-%dT%H:%M:%SZ'): the microsecond is dropped.
strftime(t) == Stamp("S", t[1], 0)

\* datetime.strptime(dt, format): the whole string must match the format,
\* else ValueError.
strptime(dt, format) ==
    IF dt.fmt = format
    THEN [ok |-> TRUE, value |-> <<dt.sec, IF format = "f" THEN dt.micro ELSE 0>>]
    ELSE [ok |-> FALSE, value |-> <<0, 0>>]

\* Response._parse_datetime: whole seconds first, on ValueError the
\* fractional format, whose ValueError is not caught.
parse_datetime(dt) ==
    LET first == strptime(dt, "S")
    IN  IF first.ok THEN first ELSE strptime(dt, "f")

(***************************************************************************)
(* str.strip() on a node's text.                                           *)
(***************************************************************************)
RECURSIVE lstrip(_)
lstrip(s) == IF s # <<>> /\ Head(s) = " " THEN lstrip(Tail(s)) ELSE s

RECURSIVE rstrip(_)
rstrip(s) ==
    IF s # <<>> /\ s[Len(s)] = " " THEN rstrip(SubSeq(s, 1, Len(s) - 1)) ELSE s

\* node.text.strip(): None has no strip, so AttributeError.
text_strip(text) ==
    IF text.none
    THEN [ok |-> FALSE, value |-> <<>>]
    ELSE [ok |-> TRUE, value |-> lstrip(rstrip(text.s))]

(***************************************************************************)
(* Outcome of a call: a returned value (value holds it, alone) or a raised  *)
(* exception (value is empty).                                             *)
(***************************************************************************)
Return(v) == [kind |-> "return", exc |-> "", msg |-> "", value |-> <<v>>]

Raise(exc, msg) == [kind |-> "raise", exc |-> exc, msg |-> msg, value |-> <<>>]

(***************************************************************************)
(* The XPath queries, over the document as parsed.                         *)
(***************************************************************************)
\* /samlp:Response/saml:Assertion/saml:Subject/saml:NameID
xpath_NameID(doc) == doc.nameIDs

RECURSIVE values_of(_, _, _)
values_of(attributes, attribute_name, i) ==
    IF i > Len(attributes) THEN <<>>
    ELSE (IF attributes[i].Name = attribute_name THEN attributes[i].values ELSE <<>>)
         \o values_of(attributes, attribute_name, i + 1)

\* /samlp:Response/saml:Assertion/saml:AttributeStatement
\*     /saml:Attribute[@Name="<attribute_name>"]/saml:AttributeValue
\* for an attribute_name without a double quote in it.
xpath_AttributeValue(doc, attribute_name) == values_of(doc.attributes, attribute_name, 1)

\* /samlp:Response/saml:Assertion/saml:Conditions
xpath_Conditions(doc) == doc.conditions

RECURSIVE audiences_of(_, _)
audiences_of(conditions, i) ==
    IF i > Len(conditions) THEN <<>>
    ELSE conditions[i].audiences \o audiences_of(conditions, i + 1)

\* condition.xpath('/samlp:Response/saml:Assertion/saml:Conditions
\*     /saml:AudienceRestriction/saml:Audience'): the path is absolute, so it
\* is evaluated from the root of the document the condition node is in and
\* selects the Audience nodes of every Conditions element.
xpath_Audience(doc, condition) == audiences_of(doc.conditions, 1)

(***************************************************************************)
(* Response._get_name_id                                                   *)
(***************************************************************************)
get_name_id(doc) ==
    LET result == xpath_NameID(doc)
        length == Len(result)
    IN  IF length > 1
        THEN Raise("ResponseNameIDError", "Found more than one name ID")
        ELSE IF length = 0
        THEN Raise("ResponseNameIDError", "Did not find a name ID")
        ELSE LET node     == result[Len(result)]
                 stripped == text_strip(node)
             IN  IF stripped.ok
                 THEN Return(stripped.value)
                 ELSE Raise("AttributeError", "'NoneType' object has no attribute 'strip'")

(***************************************************************************)
(* Response.get_assertion_attribute_value                                  *)
(***************************************************************************)
get_assertion_attribute_value(doc, attribute_name) ==
    LET result == xpath_AttributeValue(doc, attribute_name)
    IN  IF \E k \in 1..Len(result) : ~text_strip(result[k]).ok
        THEN Raise("AttributeError", "'NoneType' object has no attribute 'strip'")
        ELSE Return([k \in 1..Len(result) |-> text_strip(result[k]).value])

(***************************************************************************)
(* Response.is_valid                                                       *)
(***************************************************************************)
\* The expected issuer: None (the default) or a str.
NoIssuer == [none |-> TRUE, s |-> ""]

Issuer(name) == [none |-> FALSE, s |-> name]

\* `if self._issuer:` None and the empty str are false.
truthy(iss) == ~iss.none /\ iss.s # ""

\* What is_valid does that a caller can observe, in order: the clock read,
\* each Conditions element the loop takes up, the verifier call with its
\* arguments and its answer.
ClockEvent == [ev |-> "clock", index |-> 0, args |-> <<>>, result |-> FALSE]

ConditionEvent(i) == [ev |-> "condition", index |-> i, args |-> <<>>, result |-> FALSE]

VerifyEvent(doc, sig, verdict) ==
    [ev |-> "verify", index |-> 0, args |-> <<doc, sig>>, result |-> verdict]

\* The default NotBefore, were the five seconds added to now.
default_not_before_later(now) == strftime(MinusSeconds(now, 0 - GraceSeconds))

\* Lines 121-123: the NotBefore used when the attribute is absent.
default_not_before(now) == strftime(MinusSeconds(now, GraceSeconds))

\* The window tests, were the upper one `now > not_on_or_after`.
out_of_window_inclusive(now, not_before, not_on_or_after) ==
    Before(now, not_before) \/ Before(not_on_or_after, now)

\* Lines 130-133: the two `continue` tests of the window.
out_of_window(now, not_before, not_on_or_after) ==
    Before(now, not_before) \/ ~Before(now, not_on_or_after)

\* Lines 136-145: the audience test of a condition found in its window.
audience_found(doc, iss, condition) ==
    /\ truthy(iss)
    /\ LET audienceValues == xpath_Audience(doc, condition)
       IN  \E k \in 1..Len(audienceValues) : audienceValues[k] = iss.s

\* Lines 116-145: the loop from the i-th Conditions element on.  st carries
\* foundCondition, fountConditionAndAudience, the events so far and the
\* exception that ended the loop, if one did.
RECURSIVE conditions_loop(_, _, _, _, _)
conditions_loop(doc, iss, now, i, st) ==
    LET conditions == xpath_Conditions(doc)
    IN  IF i > Len(conditions) THEN st
        ELSE
        LET condition        == conditions[i]
            taken            == [st EXCEPT !.events = Append(st.events, ConditionEvent(i))]
            not_before_attr  == condition.NotBefore
            not_on_or_after_attr == condition.NotOnOrAfter
            not_before_str   == IF not_before_attr.none
                                THEN default_not_before(now)
                                ELSE not_before_attr
        IN  IF not_on_or_after_attr.none
            THEN conditions_loop(doc, iss, now, i + 1, taken)
            ELSE
            LET not_before      == parse_datetime(not_before_str)
                not_on_or_after == parse_datetime(not_on_or_after_attr)
            IN  IF ~not_before.ok \/ ~not_on_or_after.ok
                THEN [taken EXCEPT !.raised = TRUE,
                                   !.outcome = Raise("ValueError", "time data does not match format")]
                ELSE IF out_of_window(now, not_before.value, not_on_or_after.value)
                THEN conditions_loop(doc, iss, now, i + 1, taken)
                ELSE conditions_loop(doc, iss, now, i + 1,
                        [taken EXCEPT
                            !.foundCondition = TRUE,
                            !.fountConditionAndAudience =
                                @ \/ audience_found(doc, iss, condition)])

\* Lines 147-150: the two raises after the loop.
final_gate(foundCondition, fountConditionAndAudience) ==
    IF ~foundCondition
    THEN Raise("ResponseConditionError", "Timmig issue")
    ELSE IF foundCondition /\ ~fountConditionAndAudience
    THEN Raise("ResponseConditionError", "Not valid Audience")
    ELSE Return(TRUE)

\* is_valid, were the verifier called before the loop and its answer kept
\* for the return.
is_valid_verifying_first(doc, sig, iss, now, verdict) ==
    LET start == [foundCondition |-> FALSE, fountConditionAndAudience |-> FALSE,
                  events |-> <<ClockEvent, VerifyEvent(doc, sig, verdict)>>,
                  raised |-> FALSE, outcome |-> Return(TRUE)]
        loop  == conditions_loop(doc, iss, now, 1, start)
        gate  == final_gate(loop.foundCondition, loop.fountConditionAndAudience)
    IN  IF loop.raised
        THEN [outcome |-> loop.outcome, events |-> loop.events]
        ELSE IF gate.kind = "raise"
        THEN [outcome |-> gate, events |-> loop.events]
        ELSE [outcome |-> Return(verdict), events |-> loop.events]

\* is_valid with the clock reading `now` and a verifier answering `verdict`:
\* the outcome and the events of the call.
is_valid(doc, sig, iss, now, verdict) ==
    LET start == [foundCondition |-> FALSE, fountConditionAndAudience |-> FALSE,
                  events |-> <<ClockEvent>>, raised |-> FALSE, outcome |-> Return(TRUE)]
        loop  == conditions_loop(doc, iss, now, 1, start)
        gate  == final_gate(loop.foundCondition, loop.fountConditionAndAudience)
    IN  IF loop.raised
        THEN [outcome |-> loop.outcome, events |-> loop.events]
        ELSE IF gate.kind = "raise"
        THEN [outcome |-> gate, events |-> loop.events]
        ELSE [outcome |-> Return(verdict),
              events  |-> Append(loop.events, VerifyEvent(doc, sig, verdict))]

(***************************************************************************)
(* The documents, issuers and inputs of the model.                         *)
(***************************************************************************)
\* The Audience texts under one Conditions element.
AudienceLists == {<<>>, <<"sp">>, <<"other">>}

\* Conditions elements whose timestamps are in an accepted format: NotBefore
\* absent or whole-second, NotOnOrAfter whole-second or fractional-second.
WellFormedConditions ==
    [NotBefore    : {NoStamp, Stamp("S", 6, 0)},
     NotOnOrAfter : {Stamp("S", 7, 0), Stamp("f", 6, 500000)},
     audiences    : AudienceLists]

\* Conditions elements without NotOnOrAfter.
OpenEndedConditions ==
    [NotBefore    : {NoStamp, Stamp("date", 6, 0)},
     NotOnOrAfter : {NoStamp},
     audiences    : {<<"sp">>}]

\* Conditions elements with NotOnOrAfter and a date-only timestamp.
MalformedConditions ==
    {[NotBefore |-> nb, NotOnOrAfter |-> noa, audiences |-> <<"sp">>] :
        <<nb, noa>> \in {<<Stamp("date", 6, 0), Stamp("S", 7, 0)>>,
                         <<Stamp("S", 6, 0), Stamp("date", 7, 0)>>}}

ConditionsElements ==
    WellFormedConditions \cup OpenEndedConditions \cup MalformedConditions

Attribute(name, values) == [Name |-> name, values |-> values]

AttributeNames == {"mail", "Mail"}

Document(nameIDs, attributes, conditions) ==
    [nameIDs |-> nameIDs, attributes |-> attributes, conditions |-> conditions]

\* Documents that differ in their Conditions elements.
ValidityDocuments ==
    {Document(<<Str(<<"x">>)>>, <<Attribute("mail", <<Str(<<"x">>)>>)>>, c) :
        c \in SeqsOf(ConditionsElements, 0, MaxConds)}

\* Documents that differ in their NameID nodes or in their attributes.
ExtractDocuments ==
    LET c == <<[NotBefore |-> NoStamp, NotOnOrAfter |-> Stamp("S", 7, 0),
                audiences |-> <<"sp">>]>>
    IN  {Document(n, <<Attribute("mail", <<Str(<<"x">>)>>)>>, c) :
            n \in SeqsOf(Texts, 0, MaxNodes)}
        \cup
        {Document(<<Str(<<"x">>)>>, <<Attribute("mail", v)>> \o more, c) :
            v \in SeqsOf(Texts, 0, MaxNodes),
            more \in {<<>>, <<Attribute("Mail", <<Str(<<"x", " ">>)>>)>>,
                      <<Attribute("mail", <<Str(<<" ", "x">>)>>)>>}}
        \cup
        {Document(<<Str(<<"x">>)>>, <<>>, c)}

Documents == ValidityDocuments \cup ExtractDocuments

Fingerprints == {"fp"}

Issuers == {NoIssuer, Issuer("sp")}

\* What the injected clock can read.
ClockValues == {<<5, 500000>>, <<6, 0>>, <<6, 500000>>, <<7, 0>>, <<7, 500000>>}

(***************************************************************************)
(* The Response object and the calls on it.                                *)
(***************************************************************************)
Call(op, args, outcome, events) ==
    [op |-> op, args |-> args, outcome |-> outcome, events |-> events]

\* Response.__init__: the decoded document, the fingerprint and the issuer
\* are stored; `constructed` keeps what was stored and `last` is the latest
\* call on the object.
Init ==
    /\ document \in Documents
    /\ signature \in Fingerprints
    /\ issuer \in Issuers
    /\ constructed = [document |-> document, signature |-> signature, issuer |-> issuer]
    /\ last = Call("init", <<>>, Return(<<>>), <<>>)
    /\ failed = FALSE

\* `failed` records that a call on this object has raised.
Record(call) ==
    /\ last' = call
    /\ failed' = (failed \/ call.outcome.kind = "raise")

\* response.name_id, were result.pop() to take the node out of the document.
ReadNameIdPoppingDocument ==
    /\ Record(Call("name_id", <<>>, get_name_id(document), <<>>))
    /\ document' = IF Len(document.nameIDs) = 1
                   THEN [document EXCEPT !.nameIDs = <<>>]
                   ELSE document
    /\ UNCHANGED <<signature, issuer, constructed>>

\* response.name_id
ReadNameId ==
    /\ Record(Call("name_id", <<>>, get_name_id(document), <<>>))
    /\ UNCHANGED <<document, signature, issuer, constructed>>

\* response.get_assertion_attribute_value(attribute_name)
GetAssertionAttributeValue ==
    \E attribute_name \in AttributeNames :
        /\ Record(Call("get_assertion_attribute_value", <<attribute_name>>,
                       get_assertion_attribute_value(document, attribute_name), <<>>))
        /\ UNCHANGED <<document, signature, issuer, constructed>>

\* response.is_valid(_clock, _verifier)
IsValid ==
    \E now \in ClockValues, verdict \in BOOLEAN :
        LET call == is_valid(document, signature, issuer, now, verdict)
        IN  /\ Record(Call("is_valid", <<now, verdict>>, call.outcome, call.events))
            /\ UNCHANGED <<document, signature, issuer, constructed>>

Next == ReadNameId \/ GetAssertionAttributeValue \/ IsValid

Spec == Init /\ [][Next]_vars

(***************************************************************************)
(* The vocabulary of the properties.                                       *)
(***************************************************************************)
\* A timestamp in one of the two accepted formats.
Accepted(stamp) == stamp.fmt \in {"S", "f"}

\* The instant an accepted timestamp names.
InstantOf(stamp) == <<stamp.sec, IF stamp.fmt = "f" THEN stamp.micro ELSE 0>>

\* Every timestamp present in the document is in an accepted format.
AllStampsAccepted(doc) ==
    \A i \in 1..Len(doc.conditions) :
        /\ doc.conditions[i].NotBefore.none \/ Accepted(doc.conditions[i].NotBefore)
        /\ doc.conditions[i].NotOnOrAfter.none \/ Accepted(doc.conditions[i].NotOnOrAfter)

\* lower <= now < NotOnOrAfter, with lower = NotBefore, or now - 5 seconds
\* when NotBefore is absent.
InWindow(condition, now) ==
    /\ ~condition.NotOnOrAfter.none
    /\ Accepted(condition.NotOnOrAfter)
    /\ condition.NotBefore.none \/ Accepted(condition.NotBefore)
    /\ LET lower == IF condition.NotBefore.none
                    THEN MinusSeconds(now, 5)
                    ELSE InstantOf(condition.NotBefore)
       IN  ~Before(now, lower) /\ Before(now, InstantOf(condition.NotOnOrAfter))

SomeInWindow(doc, now) ==
    \E i \in 1..Len(doc.conditions) : InWindow(doc.conditions[i], now)

\* The condition's own Audience list names the issuer.
OwnAudience(condition, iss) ==
    \E k \in 1..Len(condition.audiences) : condition.audiences[k] = iss.s

\* The positions of the verifier calls among the events of a call.
VerifyCalls(events) == {k \in 1..Len(events) : events[k].ev = "verify"}

IsValidCall == last.op = "is_valid"

Now == last.args[1]

Verdict == last.args[2]

TimingError == Raise("ResponseConditionError", "Timmig issue")

AudienceError == Raise("ResponseConditionError", "Not valid Audience")

\* The text of a node with its leading and trailing blanks removed; an
\* element without content has the empty text.
Trimmed(text) == IF text.none THEN <<>> ELSE lstrip(rstrip(text.s))

\* The document without its Conditions elements that have no NotOnOrAfter.
WithoutOpenEnded(doc) ==
    [doc EXCEPT !.conditions =
        SelectSeq(doc.conditions, LAMBDA c : ~c.NotOnOrAfter.none)]

\* With accepted timestamps and no Conditions element in its window,
\* is_valid raises the timing error.
NoWindowIsTimingError ==
    (IsValidCall /\ AllStampsAccepted(document) /\ ~SomeInWindow(document, Now)) =>
        last.outcome = TimingError

\* The outcome of a call, had it been the first on the object as constructed.
OnConstructed(call) ==
    IF call.op = "name_id"
    THEN get_name_id(constructed.document)
    ELSE IF call.op = "get_assertion_attribute_value"
    THEN get_assertion_attribute_value(constructed.document, call.args[1])
    ELSE is_valid(constructed.document, constructed.signature, constructed.issuer,
                  call.args[1], call.args[2]).outcome

(***************************************************************************)
(* C1.  is_valid returns True only if the verifier answered True for the   *)
(* document and the fingerprint and some Conditions element has a          *)
(* NotOnOrAfter and lower <= now < NotOnOrAfter.                           *)
(***************************************************************************)
C1_TrueOnlyIfVerifiedAndInWindow ==
    (IsValidCall /\ last.outcome = Return(TRUE)) =>
        /\ Verdict = TRUE
        /\ \E k \in VerifyCalls(last.events) :
               /\ last.events[k].args = <<document, signature>>
               /\ last.events[k].result = TRUE
        /\ SomeInWindow(document, Now)

\* is_valid returned True on a document with two Conditions elements, one
\* of them out of its window.
C1_Witness ==
    /\ IsValidCall
    /\ last.outcome = Return(TRUE)
    /\ Len(document.conditions) = 2
    /\ \E i \in 1..2 : ~InWindow(document.conditions[i], Now)

(***************************************************************************)
(* C2.  With no expected issuer, on a document with accepted timestamps    *)
(* and some Conditions element in its window, is_valid raises nothing and  *)
(* returns the verifier's answer, whatever the Audience lists hold.        *)
(***************************************************************************)
C2_NoIssuerSkipsAudience ==
    (IsValidCall /\ issuer.none /\ AllStampsAccepted(document)
        /\ SomeInWindow(document, Now)) =>
        last.outcome = Return(Verdict)

(***************************************************************************)
(* C3.  With an expected issuer, if no Conditions element in its window    *)
(* names the issuer in its own Audience list, is_valid raises the audience *)
(* error, whatever other Conditions elements list.                         *)
(***************************************************************************)
C3_AudienceScopedToSatisfied ==
    (IsValidCall /\ truthy(issuer) /\ AllStampsAccepted(document)
        /\ SomeInWindow(document, Now)
        /\ \A i \in 1..Len(document.conditions) :
               InWindow(document.conditions[i], Now) =>
                   ~OwnAudience(document.conditions[i], issuer)) =>
        last.outcome = AudienceError

(***************************************************************************)
(* C4.  If no Conditions element is in its window is_valid raises the      *)
(* timing error; and a Conditions element without NotOnOrAfter is skipped  *)
(* entirely: the call ends as it does on the document without it.          *)
(***************************************************************************)
C4_NoWindowAndOpenEndedSkipped ==
    /\ NoWindowIsTimingError
    /\ (IsValidCall /\ AllStampsAccepted(document)) =>
           last.outcome =
               is_valid(WithoutOpenEnded(document), signature, issuer, Now, Verdict).outcome

C6_BadTimestampIsConditionError ==
    (IsValidCall /\ \E i \in 1..Len(document.conditions) :
        LET c == document.conditions[i]
        IN  /\ ~c.NotOnOrAfter.none
            /\ \/ ~Accepted(c.NotOnOrAfter)
               \/ (~c.NotBefore.none /\ ~Accepted(c.NotBefore))) =>
        /\ last.outcome.kind = "raise"
        /\ last.outcome.exc = "ResponseConditionError"

(***************************************************************************)
(* C7.  With an expected issuer and accepted timestamps, if some           *)
(* Conditions element is in its window and names the issuer in its own     *)
(* Audience list, is_valid raises no condition error: it returns the       *)
(* verifier's answer, wherever that element stands and whatever the other  *)
(* elements are.                                                           *)
(***************************************************************************)
C7_AnySatisfies ==
    (IsValidCall /\ ~issuer.none /\ AllStampsAccepted(document)
        /\ \E i \in 1..Len(document.conditions) :
               /\ InWindow(document.conditions[i], Now)
               /\ OwnAudience(document.conditions[i], issuer)) =>
        last.outcome = Return(Verdict)

\* The satisfying element has no NotBefore and stands second, after an
\* element that is out of its window and names another audience.
C7_Witness ==
    /\ IsValidCall
    /\ ~issuer.none
    /\ last.outcome.kind = "return"
    /\ Len(document.conditions) = 2
    /\ ~document.conditions[1].NotOnOrAfter.none
    /\ ~InWindow(document.conditions[1], Now)
    /\ ~OwnAudience(document.conditions[1], issuer)
    /\ document.conditions[2].NotBefore.none
    /\ InWindow(document.conditions[2], Now)
    /\ OwnAudience(document.conditions[2], issuer)

(***************************************************************************)
(* C8.  name_id: with exactly one NameID node the result is its trimmed    *)
(* text, also for a node without content; with none or with two or more    *)
(* it raises ResponseNameIDError, with a message for each case.            *)
(***************************************************************************)
C8_NameIdTrimmedOrError ==
    last.op = "name_id" =>
        LET n == Len(document.nameIDs)
        IN  /\ n = 1 => last.outcome = Return(Trimmed(document.nameIDs[1]))
            /\ n = 0 => last.outcome =
                   Raise("ResponseNameIDError", "Did not find a name ID")
            /\ n > 1 => last.outcome =
                   Raise("ResponseNameIDError", "Found more than one name ID")

(***************************************************************************)
(* C9.  get_assertion_attribute_value never raises: it returns the trimmed *)
(* text of every AttributeValue under the Attributes of that exact Name,   *)
(* in document order, an entry also for a value without content.           *)
(***************************************************************************)
C9_AttributeValuesNeverRaise ==
    last.op = "get_assertion_attribute_value" =>
        LET nodes == xpath_AttributeValue(document, last.args[1])
        IN  last.outcome = Return([k \in 1..Len(nodes) |-> Trimmed(nodes[k])])

(***************************************************************************)
(* C10.  Every call, returning or raising, leaves the document, the        *)
(* fingerprint and the issuer as the constructor stored them, and the      *)
(* outcome of a call is that of the same call on the object as             *)
(* constructed, whatever calls went before.                                *)
(***************************************************************************)
C10_CallsLeaveObjectUnchanged ==
    /\ document = constructed.document
    /\ signature = constructed.signature
    /\ issuer = constructed.issuer
    /\ last.op # "init" => last.outcome = OnConstructed(last)

\* A call returned after an earlier call on the same object had raised.
C10_Witness ==
    /\ failed
    /\ last.op = "name_id"
    /\ last.outcome.kind = "return"

====
